---------------------------- MODULE Spec2Model ----------------------------
(***************************************************************************)
(* A model of three files of the edgy ORM:                                 *)
(*   edgy/core/db/fields/many_to_many.py  (ManyToManyField and its bridge) *)
(*   edgy/core/db/models/base.py          (EdgyBaseModel, reflect model)   *)
(*   edgy/core/db/models/row.py           (ModelRow.from_sqla_row)         *)
(*                                                                         *)
(* Python strings are sequences of one-character strings, so that lower(), *)
(* concatenation, `in` and split() are computed and not assumed.           *)
(***************************************************************************)
EXTENDS Integers, Sequences, FiniteSets, TLC

VARIABLES
    heap,        \* the model classes that exist, by object identity (index)
    registry,    \* registry.models: class name -> object identity
    m2m,         \* the many-to-many field objects constructed so far
    calls,       \* per field: the through it was declared with, and the outcomes
                 \* of its create_through_model() calls
    warnings,    \* number of terminal.write_warning() calls made
    newLog,      \* the last ManyToManyField(...) call: arguments and outcome
    inst,        \* the last EdgyBaseModel(**kwargs) call: arguments and outcome
    rowCall,     \* the last from_sqla_row() call: arguments and outcome
    cache,       \* functools.lru_cache of get_engine: <<key, engine>> in LRU order
    engines,     \* number of sqlalchemy.create_engine() calls made
    engineLog,   \* every get_engine() call made: class, url, engine returned
    attrs,       \* the attributes of one model instance (raw_query property)
    rq           \* the last raw_query assignment: value, attributes before

vars == <<heap, registry, m2m, calls, warnings, newLog, inst, rowCall,
          cache, engines, engineLog, attrs, rq>>

m2mVars == <<heap, registry, m2m, calls, warnings, newLog>>
modelVars == <<inst>>
rowVars == <<rowCall>>
engineVars == <<cache, engines, engineLog>>
rawVars == <<attrs, rq>>

---------------------------------------------------------------------------
(* Python strings *)

UpperChars == <<"A","B","C","D","E","F","G","H","I","J","K","L","M",
                "N","O","P","Q","R","S","T","U","V","W","X","Y","Z">>
LowerChars == <<"a","b","c","d","e","f","g","h","i","j","k","l","m",
                "n","o","p","q","r","s","t","u","v","w","x","y","z">>

\* str.lower() on one character
LowerChar(c) ==
    IF \E i \in 1..Len(UpperChars) : UpperChars[i] = c
    THEN LowerChars[CHOOSE i \in 1..Len(UpperChars) : UpperChars[i] = c]
    ELSE c

\* str.lower()
Lower(s) == [i \in 1..Len(s) |-> LowerChar(s[i])]

\* `sep in s` at position i
MatchAt(s, sep, i) ==
    /\ i + Len(sep) - 1 <= Len(s)
    /\ \A j \in 1..Len(sep) : s[i + j - 1] = sep[j]

\* `sep in s`
Contains(s, sep) == \E i \in 1..Len(s) : MatchAt(s, sep, i)

\* index of the first occurrence of sep in s at or after position i, 0 if none
FindFrom(s, sep, i) ==
    IF \E k \in i..Len(s) : MatchAt(s, sep, k)
    THEN CHOOSE k \in i..Len(s) :
            /\ MatchAt(s, sep, k)
            /\ \A k2 \in i..(k - 1) : ~MatchAt(s, sep, k2)
    ELSE 0

\* s.split(sep, 1) when sep occurs in s: <<before, after>>
Split1(s, sep) ==
    LET k == FindFrom(s, sep, 1)
    IN  <<SubSeq(s, 1, k - 1), SubSeq(s, k + Len(sep), Len(s))>>

\* s.split(sep): the list of all segments, scanning left to right
RECURSIVE SplitAll(_, _)
SplitAll(s, sep) ==
    IF FindFrom(s, sep, 1) = 0
    THEN <<s>>
    ELSE <<Split1(s, sep)[1]>> \o SplitAll(Split1(s, sep)[2], sep)

\* the elements of a list
Elems(q) == {q[i] : i \in 1..Len(q)}

---------------------------------------------------------------------------
(* Python values held in kwargs and on field objects: one record shape *)

None == [t |-> "None", n |-> 0, s |-> <<>>]
Bool(b) == [t |-> "bool", n |-> IF b THEN 1 ELSE 0, s |-> <<>>]
PyInt(i) == [t |-> "int", n |-> i, s |-> <<>>]
Str(x) == [t |-> "str", n |-> 0, s |-> x]
Obj(i) == [t |-> "model", n |-> i, s |-> <<>>]
List0 == [t |-> "list", n |-> 0, s |-> <<>>]
TypeRef(x) == [t |-> "type", n |-> 0, s |-> x]

\* Python truth value
Truthy(v) ==
    CASE v.t = "None" -> FALSE
      [] v.t = "bool" -> v.n = 1
      [] v.t = "int" -> v.n # 0
      [] v.t = "str" -> v.s # <<>>
      [] v.t = "list" -> FALSE
      [] OTHER -> TRUE

\* dict.get(key, default)
Get(d, k, default) == IF k \in DOMAIN d THEN d[k] ELSE default

\* {**d1, **d2}
Merge(d1, d2) ==
    [k \in DOMAIN d1 \cup DOMAIN d2 |-> IF k \in DOMAIN d2 THEN d2[k] ELSE d1[k]]

\* d[k] = v
DictSet(d, k, v) == [x \in DOMAIN d \cup {k} |-> IF x = k THEN v ELSE d[x]]

\* the dict without the keys in ks (a series of pop())
Without(d, ks) == [k \in DOMAIN d \ ks |-> d[k]]

EmptyDict == [k \in {} |-> None]

CASCADE == Str(<<"C","A","S","C","A","D","E">>)
RESTRICT == Str(<<"R","E","S","T","R","I","C","T">>)
ForeignKeyType == TypeRef(<<"F","o","r","e","i","g","n","K","e","y">>)

---------------------------------------------------------------------------
(* ManyToManyField construction *)

\* ManyToManyField.validate(**kwargs): the outcome of the call.  The kwargs
\* it assigns to are its own dictionary, built from the ** of the call.
validate_kwargs_after(kwargs) ==
    LET related_name == Get(kwargs, "related_name", None)
    IN  DictSet(kwargs, "related_name",
                IF Truthy(related_name) THEN Str(Lower(related_name.s)) ELSE None)

validate_raises(kwargs) ==
    LET related_name == Get(kwargs, "related_name", None)
    IN  Truthy(related_name) /\ related_name.t # "str"

\* the caller's kwargs after cls.validate(**kwargs) returned: validate's own
\* dictionary is dropped with its frame and the caller's is as it was
kwargs_after_validate(kwargs) ==
    LET own == validate_kwargs_after(kwargs)
    IN  kwargs

FactoryKeys == {"to", "null", "on_update", "on_delete", "related_name", "comment",
                "through", "owner", "server_default", "server_onupdate",
                "registry", "is_o2o", "is_fk"}

\* ForeignKeyFieldFactory.__new__ after validate: the namespace handed to Field()
Namespace(kw) ==
    Merge(
      [k \in {"__type__", "to", "on_update", "on_delete", "related_name",
              "annotation", "null", "comment", "owner", "server_default",
              "server_onupdate", "through", "registry", "column_type",
              "is_m2m", "is_o2o", "is_fk", "constraints"} |->
        CASE k = "__type__" -> ForeignKeyType
          [] k = "annotation" -> ForeignKeyType
          [] k = "column_type" -> ForeignKeyType
          [] k = "to" -> Get(kw, "to", None)
          [] k = "null" -> Get(kw, "null", Bool(FALSE))
          [] k = "on_update" -> Get(kw, "on_update", CASCADE)
          [] k = "on_delete" -> Get(kw, "on_delete", RESTRICT)
          [] k = "is_o2o" -> Get(kw, "is_o2o", Bool(FALSE))
          [] k = "is_fk" -> Get(kw, "is_fk", Bool(FALSE))
          [] k = "is_m2m" -> Bool(TRUE)
          [] k = "constraints" -> List0
          [] OTHER -> Get(kw, k, None)],
      Without(kw, FactoryKeys))

\* ForeignKeyFieldFactory.__new__(cls, **kwargs): [exc, field]
ForeignKeyFieldFactory_new(kwargs) ==
    IF validate_raises(kwargs)
    THEN [exc |-> "AssertionError", field |-> EmptyDict]
    ELSE [exc |-> "", field |-> Namespace(kwargs_after_validate(kwargs))]

\* as M2MKwargs, without kwargs["null"] = True
M2MKwargsNullNotForced(to, through, kwargs) ==
    LET null == Get(kwargs, "null", None)
        locals == [k \in {"to", "through", "null"} |->
                    CASE k = "to" -> to
                      [] k = "through" -> through
                      [] OTHER -> null]
    IN  Merge(kwargs, locals)

\* ManyToManyField.__new__: the kwargs handed to super().__new__
M2MKwargs(to, through, kwargs) ==
    LET null == Get(kwargs, "null", None)
        locals == [k \in {"to", "through", "null"} |->
                    CASE k = "to" -> to
                      [] k = "through" -> through
                      [] OTHER -> null]
    IN  DictSet(Merge(kwargs, locals), "null", Bool(TRUE))

\* ManyToManyField.__new__: whether terminal.write_warning is called
M2MWarns(kwargs) == Truthy(Get(kwargs, "null", None))

\* ManyToManyField.__new__(cls, to, *, through=None, **kwargs)
ManyToManyField_new(to, through, kwargs) ==
    /\ LET r == ForeignKeyFieldFactory_new(M2MKwargs(to, through, kwargs))
       IN  /\ newLog' = [called |-> TRUE, to |-> to, through |-> through,
                         kwargs |-> kwargs, exc |-> r.exc,
                         warned |-> M2MWarns(kwargs), field |-> r.field,
                         n |-> newLog.n + 1]
           /\ m2m' = IF r.exc = "" THEN Append(m2m, r.field) ELSE m2m
           /\ calls' = IF r.exc = ""
                       THEN Append(calls, [declared |-> through, log |-> <<>>])
                       ELSE calls
    /\ warnings' = warnings + (IF M2MWarns(kwargs) THEN 1 ELSE 0)
    /\ UNCHANGED <<heap, registry>>

---------------------------------------------------------------------------
(* Model classes and the registry *)

Team == <<"T","e","a","m">>
TEAM == <<"T","E","A","M">>
Member == <<"M","e","m","b","e","r">>
Membership == <<"M","e","m","b","e","r","s","h","i","p">>
TeamMember == <<"T","e","a","m","M","e","m","b","e","r">>
Fans == <<"F","a","n","s">>
IdName == <<"i","d">>

\* edgy.IntegerField(primary_key=True)
IntegerFieldPk ==
    [kind |-> "IntegerField", primary_key |-> TRUE, to |-> 0, null |-> FALSE,
     on_delete |-> <<>>, related_name |-> <<>>]

\* ForeignKey(to, null=True, on_delete=CASCADE, related_name=related_name)
ForeignKeyField(to, related_name) ==
    [kind |-> "ForeignKey", primary_key |-> FALSE, to |-> to, null |-> TRUE,
     on_delete |-> CASCADE.s, related_name |-> related_name]

\* a declared model class: __name__, meta and fields
ModelClass(name, tablename, is_multi, multi_related, fields) ==
    [name |-> name, tablename |-> tablename, is_multi |-> is_multi,
     multi_related |-> multi_related, fields |-> fields]

PlainModel(name) ==
    ModelClass(name, Lower(name) \o <<"s">>, FALSE, <<>>,
               [k \in {IdName} |-> IntegerFieldPk])

\* BaseManyToManyForeignKeyField.add_model_to_register(model)
add_model_to_register(reg, hp, model) == DictSet(reg, hp[model].name, model)

\* create_through_model(), the branch taken when self.through is set:
\* [exc, through, heap]
ExplicitThrough(field, reg, hp) ==
    LET through == field["through"]
        missing == through.t = "str" /\ through.s \notin DOMAIN reg
        resolved == IF through.t = "str" THEN reg[through.s] ELSE through.n
    IN  IF missing
        THEN [exc |-> "KeyError", through |-> through, heap |-> hp]
        ELSE [exc |-> "", through |-> Obj(resolved),
              heap |-> [hp EXCEPT
                          ![resolved].is_multi = TRUE,
                          ![resolved].multi_related =
                              <<Lower(hp[field["to"].n].name)>>]]

\* create_through_model(), the synthesized bridge: the class create_edgy_model builds
ThroughModel(field, hp) ==
    LET owner_name == hp[field["owner"].n].name
        to_name == hp[field["to"].n].name
        class_name == owner_name \o to_name
        tablename == Lower(Lower(owner_name) \o <<"s","_">> \o to_name \o <<"s">>)
        related_name == field["related_name"]
        suffix == <<"_">> \o Lower(class_name) \o <<"s","_","s","e","t">>
        owner_related_name ==
            IF Truthy(related_name) THEN related_name.s \o suffix
            ELSE Lower(owner_name) \o suffix
        to_related_name ==
            IF Truthy(related_name) THEN related_name.s
            ELSE Lower(to_name) \o suffix
        fields ==
            DictSet(
              DictSet([k \in {IdName} |-> IntegerFieldPk],
                      Lower(owner_name),
                      ForeignKeyField(field["owner"].n, owner_related_name)),
              Lower(to_name),
              ForeignKeyField(field["to"].n, to_related_name))
    IN  ModelClass(class_name, tablename, TRUE, <<Lower(to_name)>>, fields)

\* as HasThrough, taking the branch only for a through given by name
HasThroughByNameOnly(field) ==
    Truthy(field["through"]) /\ field["through"].t = "str"

\* whether create_through_model() takes the explicit-through branch
HasThrough(field) == Truthy(field["through"])

\* as CachedThrough, with the assignment to self.through left out
CachedThroughNotAssigned(id) == None

\* what create_through_model() leaves in self.through after synthesizing model id
CachedThrough(id) == Obj(id)

\* BaseManyToManyForeignKeyField.create_through_model(self), on field f
create_through_model(f) ==
    /\ f \in 1..Len(m2m)
    /\ IF HasThrough(m2m[f])
       THEN LET r == ExplicitThrough(m2m[f], registry, heap)
            IN  /\ m2m' = [m2m EXCEPT ![f]["through"] = r.through]
                /\ heap' = r.heap
                /\ registry' = registry
                /\ calls' = [calls EXCEPT ![f].log = Append(@,
                     [exc |-> r.exc, branch |-> "explicit",
                      ret |-> IF r.exc = "" THEN r.through ELSE None,
                      created |-> 0])]
       ELSE LET id == Len(heap) + 1
                hp == Append(heap, ThroughModel(m2m[f], heap))
            IN  /\ heap' = hp
                /\ m2m' = [m2m EXCEPT ![f]["through"] = CachedThrough(id)]
                /\ registry' = add_model_to_register(registry, hp, id)
                /\ calls' = [calls EXCEPT ![f].log = Append(@,
                     [exc |-> "", branch |-> "synthesized", ret |-> None,
                      created |-> id])]
    /\ UNCHANGED <<warnings, newLog>>

---------------------------------------------------------------------------
(* The many-to-many specifications *)

MaxFields == 2     \* ManyToManyField(...) calls made
MaxCalls == 2      \* create_through_model() calls per field

Absent == [t |-> "absent", n |-> 0, s |-> <<>>]
RegistryRef == [t |-> "registry", n |-> 0, s |-> <<>>]

\* the keyword k=v, or nothing when the caller does not pass k
Kw(k, v) == IF v = Absent THEN EmptyDict ELSE [x \in {k} |-> v]

\* the model classes declared before any field is constructed
BaseHeap == <<PlainModel(Team), PlainModel(Member), PlainModel(TEAM),
              PlainModel(Membership)>>
BaseRegistry ==
    [nm \in {BaseHeap[i].name : i \in 1..Len(BaseHeap)} |->
        CHOOSE i \in 1..Len(BaseHeap) : BaseHeap[i].name = nm]

Owners == {1}
Targets == {2, 3}
Throughs == {None, Obj(4), Str(TeamMember)}
RelatedNames == {Absent, Str(Fans)}

NullArgs == {Absent, None, Bool(FALSE), Bool(TRUE)}
RelatedNameArgs == {Absent, Str(Fans), Str(Lower(Fans)), PyInt(123)}

InitM2M ==
    /\ heap = BaseHeap
    /\ registry = BaseRegistry
    /\ m2m = <<>>
    /\ calls = <<>>
    /\ warnings = 0
    /\ newLog = [called |-> FALSE, to |-> None, through |-> None,
                 kwargs |-> EmptyDict, exc |-> "", warned |-> FALSE,
                 field |-> EmptyDict, n |-> 0]

\* the other components before anything is constructed, materialized or assigned
IdleModel == inst = [called |-> FALSE]
IdleRow == rowCall = [called |-> FALSE]
InitEngine == cache = <<>> /\ engines = 0 /\ engineLog = <<>>
IdleRaw == attrs = EmptyDict /\ rq = [called |-> FALSE]

\* a model class declares a many-to-many field
DeclareField ==
    /\ newLog.n < MaxFields
    /\ \E owner \in Owners, to \in Targets, through \in Throughs,
          related_name \in RelatedNames :
          ManyToManyField_new(Obj(to), through,
              Merge(Merge(Kw("owner", Obj(owner)), Kw("registry", RegistryRef)),
                    Kw("related_name", related_name)))
    /\ UNCHANGED <<modelVars, rowVars, engineVars, rawVars>>

\* the bridge of a declared field is resolved
ResolveThrough ==
    /\ \E f \in 1..Len(m2m) :
          /\ Len(calls[f].log) < MaxCalls
          /\ create_through_model(f)
    /\ UNCHANGED <<modelVars, rowVars, engineVars, rawVars>>

Init == InitM2M /\ IdleModel /\ IdleRow /\ InitEngine /\ IdleRaw
Next == DeclareField \/ ResolveThrough
Spec == Init /\ [][Next]_vars

\* ManyToManyField(...) with every null and related_name a caller may pass
ConstructField ==
    /\ newLog.n < MaxFields
    /\ \E null \in NullArgs, related_name \in RelatedNameArgs :
          ManyToManyField_new(Obj(2), None,
              Merge(Merge(Kw("owner", Obj(1)), Kw("registry", RegistryRef)),
                    Merge(Kw("null", null), Kw("related_name", related_name))))
    /\ UNCHANGED <<modelVars, rowVars, engineVars, rawVars>>

NextNew == ConstructField
SpecNew == Init /\ [][NextNew]_vars

---------------------------------------------------------------------------
(* Claims about ManyToManyField construction, checked under SpecNew *)

\* C2: for every string related_name passed to ManyToManyField the field's
\* related_name is the lower-cased name, and an absent related_name stays absent.
C2_RelatedNameLowered ==
    (newLog.called /\ newLog.exc = "") =>
        LET given == Get(newLog.kwargs, "related_name", None)
        IN  IF given.t = "str"
            THEN newLog.field["related_name"] = Str(Lower(given.s))
            ELSE newLog.field["related_name"] = None

\* C3: whatever null the caller passes, every constructed field has null = True,
\* and the warning is written if and only if the caller passed a true-valued null.
C3_NullForced ==
    /\ \A f \in 1..Len(m2m) : m2m[f]["null"] = Bool(TRUE)
    /\ newLog.called =>
          /\ newLog.warned <=> Truthy(Get(newLog.kwargs, "null", None))
          /\ newLog.exc = "" => newLog.field["null"] = Bool(TRUE)
    /\ newLog.n = 0 => warnings = 0
    /\ warnings <= newLog.n

\* C3 witness: a false-valued null was passed after a true-valued one: the first
\* call warned, the second did not, and both fields are nullable.
C3_Witness ==
    /\ Len(m2m) = 2
    /\ warnings = 1
    /\ newLog.exc = ""
    /\ "null" \in DOMAIN newLog.kwargs
    /\ newLog.kwargs["null"] = Bool(FALSE)
    /\ ~newLog.warned
    /\ m2m[2]["null"] = Bool(TRUE)

---------------------------------------------------------------------------
(* Claims about create_through_model, checked under Spec *)

\* field f was declared with an explicit through: a model or a registry name
DeclaredExplicit(f) ==
    \/ calls[f].declared.t = "model"
    \/ calls[f].declared.t = "str" /\ calls[f].declared.s # <<>>

DeclaredWithout(f) == calls[f].declared = None

\* the models synthesized by the calls made on field f
SynthesizedFor(f) ==
    {calls[f].log[i].created : i \in 1..Len(calls[f].log)} \ {0}

\* C4, in a state: once called, a field declared without through has had exactly
\* one bridge synthesized, by its first call, and holds that model as its through.
C4_State ==
    \A f \in 1..Len(m2m) :
        (DeclaredWithout(f) /\ Len(calls[f].log) >= 1) =>
            /\ Cardinality(SynthesizedFor(f)) = 1
            /\ calls[f].log[1].created \in 1..Len(heap)
            /\ m2m[f]["through"] = Obj(calls[f].log[1].created)
            /\ \A i \in 1..Len(calls[f].log) : calls[f].log[i].exc = ""

\* C4, in a step: the first call appends one model to the heap and registers it
\* under its name; every later call changes neither the field's through, the heap's
\* size nor the registry.
C4_Step ==
    \A f \in 1..Len(m2m) :
        (DeclaredWithout(f) /\ Len(calls'[f].log) > Len(calls[f].log)) =>
            IF Len(calls[f].log) = 0
            THEN /\ Len(heap') = Len(heap) + 1
                 /\ m2m'[f]["through"] = Obj(Len(heap'))
                 /\ registry' = DictSet(registry, heap'[Len(heap')].name, Len(heap'))
            ELSE /\ Len(heap') = Len(heap)
                 /\ m2m'[f]["through"] = m2m[f]["through"]
                 /\ registry' = registry

\* C4: for a field declared without an explicit through, after one or more
\* create_through_model() calls exactly one bridge exists for it: the first call
\* creates, registers and caches it, later calls keep it and register nothing.
C4_OneBridge == [](C4_State) /\ [][C4_Step]_vars

\* C4 witness: a field without through on which create_through_model ran twice
C4_Witness ==
    \E f \in 1..Len(m2m) :
        /\ DeclaredWithout(f)
        /\ Len(calls[f].log) = 2
        /\ calls[f].log[1].created # 0
        /\ m2m[f]["through"] = Obj(calls[f].log[1].created)

\* C5, in a state: all calls that returned gave the same object, none made a model
C5_State ==
    \A f \in 1..Len(m2m) :
        DeclaredExplicit(f) =>
            /\ SynthesizedFor(f) = {}
            /\ \A i, j \in 1..Len(calls[f].log) :
                  (calls[f].log[i].exc = "" /\ calls[f].log[j].exc = "") =>
                      /\ calls[f].log[i].ret = calls[f].log[j].ret
                      /\ calls[f].log[i].ret.t = "model"

\* C5, in a step: a call on such a field creates no model and leaves the registry
C5_Step ==
    \A f \in 1..Len(m2m) :
        (DeclaredExplicit(f) /\ Len(calls'[f].log) > Len(calls[f].log)) =>
            /\ Len(heap') = Len(heap)
            /\ registry' = registry

\* C5: create_through_model() called twice on a field declared with an explicit
\* through (a model or a registry name) returns the same model object both times,
\* creates no model and adds or replaces no name in the registry.
C5_ExplicitIdempotent == [](C5_State) /\ [][C5_Step]_vars

\* C5 witness: a field declared with its through given by name, on which two
\* calls returned the same model
C5_Witness ==
    \E f \in 1..Len(m2m) :
        /\ calls[f].declared.t = "str"
        /\ Len(calls[f].log) = 2
        /\ calls[f].log[1].exc = "" /\ calls[f].log[2].exc = ""
        /\ calls[f].log[1].ret = calls[f].log[2].ret
        /\ calls[f].log[1].ret.t = "model"

\* the bridge the claim describes for owner o, target t and related_name r
C6_Describes(b, o, t, r) ==
    LET O == heap[o].name
        T == heap[t].name
        ot == Lower(O \o T)
        set == <<"_">> \o ot \o <<"s","_","s","e","t">>
    IN  /\ b.name = O \o T
        /\ b.tablename = Lower(O) \o <<"s","_">> \o Lower(T) \o <<"s">>
        /\ {IdName, Lower(O), Lower(T)} \subseteq DOMAIN b.fields
        /\ b.fields[IdName].primary_key
        /\ b.fields[Lower(O)].kind = "ForeignKey"
        /\ b.fields[Lower(O)].to = o
        /\ b.fields[Lower(T)].kind = "ForeignKey"
        /\ b.fields[Lower(T)].to = t
        /\ IF Truthy(r)
           THEN /\ b.fields[Lower(O)].related_name = r.s \o set
                /\ b.fields[Lower(T)].related_name = r.s
           ELSE /\ b.fields[Lower(O)].related_name = Lower(O) \o set
                /\ b.fields[Lower(T)].related_name = Lower(T) \o set

\* C6: the bridge synthesized for a field on owner O targeting T is named <O><T>,
\* has table <o>s_<t>s, an id primary key, a foreign key <o> to the owner and a
\* foreign key <t> to the target, with the reverse names the claim gives.
C6_BridgeShape ==
    \A f \in 1..Len(m2m) :
        \A b \in SynthesizedFor(f) :
            C6_Describes(heap[b], m2m[f]["owner"].n, m2m[f]["to"].n,
                         m2m[f]["related_name"])

\* the part of C6 the code does satisfy: owner and target names that differ
\* once lower-cased
C6_DistinctNames ==
    \A f \in 1..Len(m2m) :
        \A b \in SynthesizedFor(f) :
            Lower(heap[m2m[f]["owner"].n].name) # Lower(heap[m2m[f]["to"].n].name)
            => C6_Describes(heap[b], m2m[f]["owner"].n, m2m[f]["to"].n,
                            m2m[f]["related_name"])

---------------------------------------------------------------------------
(* Ordered dictionaries (keyword arguments, item sets): lists of [k, v] *)

ODKeys(d) == {d[i].k : i \in 1..Len(d)}
ODGet(d, key) == d[CHOOSE i \in 1..Len(d) : d[i].k = key].v
ODPop(d, key) == SelectSeq(d, LAMBDA e : e.k # key)
ODSet(d, key, val) ==
    IF key \in ODKeys(d)
    THEN [i \in 1..Len(d) |-> IF d[i].k = key THEN [k |-> key, v |-> val] ELSE d[i]]
    ELSE Append(d, [k |-> key, v |-> val])
ODFilter(d, keys) == SelectSeq(d, LAMBDA e : e.k \in keys)

---------------------------------------------------------------------------
(* Declared model classes used for instances and rows *)

pk == <<"p","k">>
id == <<"i","d">>
name == <<"n","a","m","e">>
title == <<"t","i","t","l","e">>
author == <<"a","u","t","h","o","r">>
publisher == <<"p","u","b","l","i","s","h","e","r">>
books == <<"b","o","o","k","s">>
query == <<"q","u","e","r","y">>
bogus == <<"b","o","g","u","s">>
dunder == <<"_","_">>

\* class attributes every model has besides its fields (base.py 27-31, 57-71, 79)
BaseAttrs == {pk, query, <<"m","e","t","a">>, <<"M","e","t","a">>,
              <<"r","a","w","_","q","u","e","r","y">>, <<"t","a","b","l","e">>}

\* per class: pkname, fields in declaration (= column) order, foreign_key_fields
\* with their targets, and the reverse-relation accessors with their related_from
ModelDefs ==
    [c \in {"Book", "Author", "Publisher"} |->
      CASE c = "Book" ->
             [pkname |-> id, fields |-> <<id, title, author, publisher>>,
              fks |-> [f \in {author, publisher} |->
                          IF f = author THEN "Author" ELSE "Publisher"],
              reverse |-> [f \in {} |-> "Book"]]
        [] c = "Author" ->
             [pkname |-> id, fields |-> <<id, name>>,
              fks |-> [f \in {} |-> "Book"],
              reverse |-> [f \in {books} |-> "Book"]]
        [] OTHER ->
             [pkname |-> id, fields |-> <<id, name, author>>,
              fks |-> [f \in {author} |-> "Author"],
              reverse |-> [f \in {books} |-> "Book"]]]

Classes == DOMAIN ModelDefs

\* cls.fields: the names of the declared fields
fields(cls) == Elems(ModelDefs[cls].fields)

\* cls.meta.fields_mapping: the mapping cls.fields is read from
fields_mapping(cls) == fields(cls)

\* cls.table.columns: build() makes one column per field, in order
columns(cls) == ModelDefs[cls].fields

\* hasattr(self, key) for a key that is no field
hasattr(cls, key) == key \in BaseAttrs \cup DOMAIN ModelDefs[cls].reverse

\* the loop of setup_model_fields_from_kwargs over the filtered kwargs, from
\* position i: the first key that is no field and no attribute raises
RECURSIVE SetupLoop(_, _, _)
SetupLoop(cls, kwargs, i) ==
    IF i > Len(kwargs)
    THEN [exc |-> "", key |-> <<>>]
    ELSE IF kwargs[i].k \notin fields(cls) /\ ~hasattr(cls, kwargs[i].k)
         THEN [exc |-> "ValueError", key |-> kwargs[i].k]
         ELSE SetupLoop(cls, kwargs, i + 1)

\* EdgyBaseModel.setup_model_fields_from_kwargs(self, kwargs):
\* [exc, key, cls (named by the message), values]
setup_model_fields_from_kwargs(cls, kwargs0) ==
    LET kwargs1 == IF pk \in ODKeys(kwargs0)
                   THEN ODSet(ODPop(kwargs0, pk), ModelDefs[cls].pkname,
                              ODGet(kwargs0, pk))
                   ELSE kwargs0
        kwargs2 == ODFilter(kwargs1, fields_mapping(cls))
        loop == SetupLoop(cls, kwargs2, 1)
    IN  [exc |-> loop.exc, key |-> loop.key, cls |-> cls,
         values |-> IF loop.exc = "" THEN kwargs2 ELSE <<>>]

\* EdgyBaseModel.__init__(self, **kwargs): the instance, or the error raised
EdgyBaseModel_init(cls, kwargs) ==
    LET r == setup_model_fields_from_kwargs(cls, kwargs)
    IN  IF r.exc = ""
        THEN [t |-> "inst", cls |-> cls, values |-> r.values]
        ELSE [t |-> "error", exc |-> r.exc, key |-> r.key, cls |-> r.cls]

PyVal(i) == [t |-> "int", n |-> i]

MaxKwargs == 2     \* keywords passed to a model constructor
KwargKeys == {pk, id, name, bogus, query}
KwargValues == {PyVal(1), PyVal(2)}

\* the keyword lists of at most MaxKwargs distinct keywords
KwargLists ==
    {kw \in UNION {[1..n -> [k : KwargKeys, v : KwargValues]] : n \in 0..MaxKwargs} :
        \A i, j \in 1..Len(kw) : i # j => kw[i].k # kw[j].k}

\* the class and keywords of a constructor call about to be made
InitModel ==
    \E cls \in Classes, kwargs \in KwargLists :
        inst = [called |-> FALSE, cls |-> cls, kwargs |-> kwargs,
                result |-> [t |-> "none"]]

\* application code constructs cls(**kwargs)
Construct ==
    /\ ~inst.called
    /\ inst' = [inst EXCEPT !.called = TRUE,
                            !.result = EdgyBaseModel_init(inst.cls, inst.kwargs)]
    /\ UNCHANGED <<m2mVars, rowVars, engineVars, rawVars>>

NextModel == Construct
ModelInit == InitM2M /\ InitModel /\ IdleRow /\ InitEngine /\ IdleRaw
SpecModel == ModelInit /\ [][NextModel]_vars

\* C1: constructing an instance with a keyword that is neither a declared field
\* nor an existing attribute fails with the invalid-keyword error naming that
\* keyword and the class; no instance is produced.
C1_InvalidKeywordRejected ==
    inst.called =>
        \A i \in 1..Len(inst.kwargs) :
            (/\ inst.kwargs[i].k \notin fields(inst.cls)
             /\ ~hasattr(inst.cls, inst.kwargs[i].k))
            => /\ inst.result.t = "error"
               /\ inst.result.exc = "ValueError"
               /\ inst.result.cls = inst.cls
               /\ inst.result.key \in
                    {inst.kwargs[j].k : j \in 1..Len(inst.kwargs)}
                        \ (fields(inst.cls) \cup BaseAttrs)

---------------------------------------------------------------------------
(* ModelRow.from_sqla_row *)

\* ModelRow.should_ignore_related_name(related_name, select_related)
should_ignore_related_name(related_name, select_related) ==
    \E i \in 1..Len(select_related) :
        related_name \in Elems(SplitAll(select_related[i], dunder))

\* cls.fields[part].target, falling back on getattr(cls, part).related_from
RelatedModel(cls, part) ==
    IF part \in fields(cls)
    THEN IF part \in DOMAIN ModelDefs[cls].fks
         THEN [exc |-> "", cls |-> ModelDefs[cls].fks[part]]
         ELSE [exc |-> "AttributeError", cls |-> cls]
    ELSE IF part \in DOMAIN ModelDefs[cls].reverse
         THEN [exc |-> "", cls |-> ModelDefs[cls].reverse[part]]
         ELSE [exc |-> "AttributeError", cls |-> cls]

\* cls.meta.foreign_key_fields, in declaration order
foreign_key_fields(cls) ==
    SelectSeq(ModelDefs[cls].fields, LAMBDA f : f \in DOMAIN ModelDefs[cls].fks)

\* `Body` applied to the value of v, v being computed once (Python evaluates an
\* expression when it binds it to a name)
Let(v, Body(_)) == CHOOSE r \in {Body(x) : x \in {v}} : TRUE

\* the inner loop of step 2 over cls.table.columns, from column i
RECURSIVE ChildItem(_, _, _, _, _, _)
ChildItem(cols, i, related, target, value, child_item) ==
    IF i > Len(cols)
    THEN child_item
    ELSE IF cols[i] \notin fields(target)
         THEN ChildItem(cols, i + 1, related, target, value, child_item)
         ELSE IF related \notin ODKeys(child_item)
              THEN Let(ODSet(child_item, cols[i], value),
                       LAMBDA c : ChildItem(cols, i + 1, related, target, value, c))
              ELSE ChildItem(cols, i + 1, related, target, value, child_item)

\* step 2 from foreign key i: [exc, item, ignored, children]
RECURSIVE RelatedLoop(_, _, _, _, _)
RelatedLoop(cls, row, select_related, i, acc) ==
    IF i > Len(foreign_key_fields(cls))
    THEN acc
    ELSE Let(foreign_key_fields(cls)[i], LAMBDA related :
         IF should_ignore_related_name(related, select_related)
         THEN Let([acc EXCEPT !.ignored = @ \cup {related}],
                  LAMBDA a : RelatedLoop(cls, row, select_related, i + 1, a))
         ELSE Let(ChildItem(columns(cls), 1, related, ModelDefs[cls].fks[related],
                            PyVal(row[<<cls, related>>]), <<>>),
                  LAMBDA child_item :
              Let(EdgyBaseModel_init(ModelDefs[cls].fks[related], child_item),
                  LAMBDA stub :
              IF stub.t = "error"
              THEN [acc EXCEPT !.exc = stub.exc]
              ELSE Let([acc EXCEPT !.item = ODSet(@, related, stub),
                                   !.children = ODSet(@, related, child_item)],
                       LAMBDA a : RelatedLoop(cls, row, select_related, i + 1, a)))))

\* step 3 from column i: the plain column values
RECURSIVE ColumnLoop(_, _, _, _)
ColumnLoop(cls, row, i, item) ==
    IF i > Len(columns(cls))
    THEN item
    ELSE IF columns(cls)[i] \notin fields(cls)
         THEN ColumnLoop(cls, row, i + 1, item)
         ELSE IF columns(cls)[i] \notin ODKeys(item)
              THEN Let(ODSet(item, columns(cls)[i],
                             PyVal(row[<<cls, columns(cls)[i]>>])),
                       LAMBDA it : ColumnLoop(cls, row, i + 1, it))
              ELSE ColumnLoop(cls, row, i + 1, item)

RECURSIVE from_sqla_row(_, _, _)
RECURSIVE SelectRelatedLoop(_, _, _, _, _)

\* step 1 from path i: [exc, item]
SelectRelatedLoop(cls, row, select_related, i, item) ==
    IF i > Len(select_related)
    THEN [exc |-> "", item |-> item]
    ELSE LET related == select_related[i]
             nested == Contains(related, dunder)
             first_part == IF nested THEN Split1(related, dunder)[1] ELSE related
             remainder == IF nested THEN <<Split1(related, dunder)[2]>> ELSE <<>>
         IN  Let(RelatedModel(cls, first_part), LAMBDA model_cls :
             IF model_cls.exc # ""
             THEN [exc |-> model_cls.exc, item |-> item]
             ELSE Let(from_sqla_row(model_cls.cls, row, remainder), LAMBDA sub :
                  IF sub.exc # ""
                  THEN [exc |-> sub.exc, item |-> item]
                  ELSE Let(ODSet(item, first_part, sub.result), LAMBDA it :
                       SelectRelatedLoop(cls, row, select_related, i + 1, it))))

\* ModelRow.from_sqla_row(cls, row, select_related):
\* [exc, result, step1, ignored, children]
from_sqla_row(cls, row, select_related) ==
    Let(SelectRelatedLoop(cls, row, select_related, 1, <<>>), LAMBDA s1 :
    IF s1.exc # ""
    THEN [exc |-> s1.exc, result |-> [t |-> "error"], step1 |-> ODKeys(s1.item),
          ignored |-> {}, children |-> <<>>]
    ELSE Let(RelatedLoop(cls, row, select_related, 1,
                 [exc |-> "", item |-> s1.item, ignored |-> {}, children |-> <<>>]),
             LAMBDA s2 :
         IF s2.exc # ""
         THEN [exc |-> s2.exc, result |-> [t |-> "error"],
               step1 |-> ODKeys(s1.item), ignored |-> {}, children |-> <<>>]
         ELSE Let(EdgyBaseModel_init(cls, ColumnLoop(cls, row, 1, s2.item)),
                  LAMBDA made :
              [exc |-> IF made.t = "error" THEN made.exc ELSE "",
               result |-> made, step1 |-> ODKeys(s1.item),
               ignored |-> s2.ignored, children |-> s2.children])))

MaxPaths == 2      \* eager-load paths in one select_related

Paths == {author, publisher, publisher \o dunder \o author, books, title}

SelectRelatedLists == UNION {[1..n -> Paths] : n \in 0..MaxPaths}

RowKeys == UNION {{<<c, f>> : f \in fields(c)} : c \in Classes}

\* rows: one value for the id columns, one for the foreign keys, one for the rest
Rows ==
    {[key \in RowKeys |->
        IF key[2] = id THEN a
        ELSE IF key[2] \in DOMAIN ModelDefs[key[1]].fks THEN b ELSE c] :
     a \in {1, 2}, b \in {3, 4}, c \in {5, 6}}

\* the class, row and eager-load paths of a materialization about to be made
InitRow ==
    \E cls \in Classes, row \in Rows, select_related \in SelectRelatedLists :
        rowCall = [called |-> FALSE, cls |-> cls, row |-> row,
                   select_related |-> select_related, exc |-> "",
                   result |-> [t |-> "none"], step1 |-> {}, ignored |-> {},
                   children |-> <<>>]

\* a query result row is materialized
Materialize ==
    /\ ~rowCall.called
    /\ \E r \in {from_sqla_row(rowCall.cls, rowCall.row, rowCall.select_related)} :
          rowCall' = [rowCall EXCEPT
                        !.called = TRUE, !.exc = r.exc, !.result = r.result,
                        !.step1 = r.step1, !.ignored = r.ignored,
                        !.children = r.children]
    /\ UNCHANGED <<m2mVars, modelVars, engineVars, rawVars>>

NextRow == Materialize
RowInit == InitM2M /\ IdleModel /\ InitRow /\ InitEngine /\ IdleRaw
SpecRow == RowInit /\ [][NextRow]_vars

\* C7: a foreign-key field is skipped in step 2 only when step 1 populated it:
\* every foreign key should_ignore_related_name is true for has an entry written
\* by the eager-load loop.
C7_SkippedOnlyIfPopulated ==
    (rowCall.called /\ rowCall.exc = "") =>
        \A related \in Elems(foreign_key_fields(rowCall.cls)) :
            should_ignore_related_name(related, rowCall.select_related)
            => related \in rowCall.step1

\* the first column of cls whose name is a field of target
FirstMatching(cls, target) ==
    columns(cls)[CHOOSE i \in 1..Len(columns(cls)) :
        /\ columns(cls)[i] \in fields(target)
        /\ \A j \in 1..(i - 1) : columns(cls)[j] \notin fields(target)]

\* C10: for every foreign key not covered by an eager-load path the stub is built
\* from a partial set of exactly one entry: the first matching column, holding the
\* row's value for the foreign key.
C10_SingleEntryStub ==
    (rowCall.called /\ rowCall.exc = "") =>
        \A related \in Elems(foreign_key_fields(rowCall.cls)) \ rowCall.ignored :
            LET child_item == ODGet(rowCall.children, related)
                target == ModelDefs[rowCall.cls].fks[related]
            IN  /\ Len(child_item) = 1
                /\ child_item[1].k = FirstMatching(rowCall.cls, target)
                /\ child_item[1].v = PyVal(rowCall.row[<<rowCall.cls, related>>])

---------------------------------------------------------------------------
(* EdgyBaseReflectModel.get_engine: @classmethod over @functools.lru_cache *)

lru_maxsize == 128     \* functools.lru_cache without arguments
MaxUrls == 3           \* distinct connection URLs
MaxEngineCalls == 3    \* get_engine() calls made

ReflectClasses == {"ReflectA", "ReflectB"}
Urls == 1..MaxUrls

\* the key lru_cache files a call under: the positional arguments (cls, url)
CacheKey(cls, url) == <<cls, url>>

CacheIndex(key) ==
    IF \E i \in 1..Len(cache) : cache[i].key = key
    THEN CHOOSE i \in 1..Len(cache) : cache[i].key = key
    ELSE 0

\* the cache without its entry i
CacheDrop(c, i) == SubSeq(c, 1, i - 1) \o SubSeq(c, i + 1, Len(c))

\* EdgyBaseReflectModel.get_engine(cls, url)
get_engine(cls, url) ==
    LET key == CacheKey(cls, url)
        i == CacheIndex(key)
    IN  IF i # 0
        THEN /\ cache' = Append(CacheDrop(cache, i), cache[i])
             /\ engines' = engines
             /\ engineLog' = Append(engineLog,
                    [cls |-> cls, url |-> url, engine |-> cache[i].engine])
        ELSE /\ engines' = engines + 1
             /\ cache' = Append(IF Len(cache) >= lru_maxsize
                                THEN Tail(cache) ELSE cache,
                                [key |-> key, engine |-> engines + 1])
             /\ engineLog' = Append(engineLog,
                    [cls |-> cls, url |-> url, engine |-> engines + 1])

\* a reflected model class asks for the engine of a URL
GetEngine ==
    /\ Len(engineLog) < MaxEngineCalls
    /\ \E cls \in ReflectClasses, url \in Urls : get_engine(cls, url)
    /\ UNCHANGED <<m2mVars, modelVars, rowVars, rawVars>>

NextEngine == GetEngine
SpecEngine == Init /\ [][NextEngine]_vars

\* C8: there is exactly one engine per distinct URL requested: a call with a URL
\* requested before returns the engine of the first call with that URL, whichever
\* class calls, and that engine is still cached.
C8_OneEnginePerUrl ==
    /\ \A i, j \in 1..Len(engineLog) :
          engineLog[i].url = engineLog[j].url
          => engineLog[i].engine = engineLog[j].engine
    /\ engines = Cardinality({engineLog[i].url : i \in 1..Len(engineLog)})
    /\ \A i \in 1..Len(engineLog) :
          \E k \in 1..Len(cache) : cache[k].engine = engineLog[i].engine

---------------------------------------------------------------------------
(* EdgyBaseModel.raw_query *)

raw == <<"_","r","a","w">>
AttrNames == {raw, <<"a">>, <<"b">>}
AttrValues == {None} \cup {Str(n) : n \in AttrNames}

\* the raw_query getter: getattr(self, self.__raw_query__)
raw_query_get(slot, at) ==
    IF slot.t # "str" THEN [exc |-> "TypeError", value |-> None]
    ELSE IF slot.s \notin DOMAIN at THEN [exc |-> "AttributeError", value |-> None]
    ELSE [exc |-> "", value |-> at[slot.s]]

\* the raw_query setter: edgy_setattr(self, self.raw_query, value)
raw_query_set(slot, at, value) ==
    LET target == raw_query_get(slot, at)
    IN  IF target.exc # "" THEN [exc |-> target.exc, attrs |-> at]
        ELSE IF target.value.t # "str" THEN [exc |-> "TypeError", attrs |-> at]
        ELSE [exc |-> "", attrs |-> DictSet(at, target.value.s, value)]

\* an instance with some attributes, of a class with or without __raw_query__
InitRaw ==
    /\ attrs \in UNION {[S -> AttrValues] : S \in SUBSET AttrNames}
    /\ \E slot \in {None, Str(raw)} :
          rq = [called |-> FALSE, slot |-> slot, value |-> None, exc |-> "",
                before |-> EmptyDict]

\* instance.raw_query = value
AssignRawQuery ==
    /\ ~rq.called
    /\ \E value \in AttrValues :
          LET r == raw_query_set(rq.slot, attrs, value)
          IN  /\ attrs' = r.attrs
              /\ rq' = [rq EXCEPT !.called = TRUE, !.value = value,
                                  !.exc = r.exc, !.before = attrs]
    /\ UNCHANGED <<m2mVars, modelVars, rowVars, engineVars>>

NextRaw == AssignRawQuery
RawInit == InitM2M /\ IdleModel /\ IdleRow /\ InitEngine /\ InitRaw
SpecRawQuery == RawInit /\ [][NextRaw]_vars

\* C9: with __raw_query__ set, reading raw_query after raw_query = v returns v
\* (the setter writes the attribute the getter reads) and no other attribute changes.
C9_SetterWritesSlot ==
    (rq.called /\ rq.slot.t = "str" /\ rq.exc = "") =>
        /\ raw_query_get(rq.slot, attrs).exc = ""
        /\ raw_query_get(rq.slot, attrs).value = rq.value
        /\ DOMAIN attrs \ {rq.slot.s} = DOMAIN rq.before \ {rq.slot.s}
        /\ \A n \in DOMAIN attrs \ {rq.slot.s} : attrs[n] = rq.before[n]

===========================================================================
